---- MODULE Spec2Model ----
(***************************************************************************)
(* A model of icepack's Arc/Info ASCII grid codec, icepack/grid/arcinfo.py *)
(* (functions write and read), together with the part of GridData the      *)
(* codec uses.                                                             *)
(*                                                                         *)
(* Text.  A stream is a sequence of lines and a line is the sequence of    *)
(* its whitespace-separated tokens, which is what str.split() makes of it; *)
(* tokens are strings.  readline() at the end of the stream returns the    *)
(* empty string, whose split() is the empty sequence, and leaves the       *)
(* position where it is.                                                   *)
(*                                                                         *)
(* Numbers.  A float is modelled by the integer it equals (1 stands for    *)
(* 1.0); "{0}".format of a float prints it with a trailing ".0", of an int *)
(* without, float() accepts both spellings and int() only the second.      *)
(*                                                                         *)
(* Indices.  The source counts rows, columns and lines from 0, sequences   *)
(* here count from 1; the accessors below take the source's indices.       *)
(***************************************************************************)
EXTENDS Integers, Sequences, FiniteSets, TLC

VARIABLES
    scenario,     \* "roundtrip": the caller writes q, then reads; "external": the caller reads a text it was given
    q,            \* the GridData the caller passes to write
    missing,      \* the sentinel the caller passes to write
    file,         \* the text of the file (path calls) / of the caller's stream (stream calls)
    pos,          \* read position of the caller's open stream: lines consumed so far
    callerClosed, \* TRUE once the caller's open stream has been closed
    codecStream,  \* the stream the last path call opened: "none", "open" or "closed"
    out,          \* outcome of the last read: a GridData or the exception raised
    last,         \* the last call: which function, path or stream, and where in the text it started
    ncalls        \* calls of write and read so far

vars == <<scenario, q, missing, file, pos, callerClosed, codecStream, out, last, ncalls>>

-----------------------------------------------------------------------------
(* Bounds of the model *)

MaxRows == 2
MaxCols == 2
MaxCalls == 3

-----------------------------------------------------------------------------
(* Python values and their text *)

NumTop == (MaxRows + 2) * (MaxCols + 2) + 1
Numbers == (-1 .. NumTop) \cup {-9999}

PyInt(v) == [isInt |-> TRUE, v |-> v]
PyFloat(v) == [isInt |-> FALSE, v |-> v]

\* "{0}".format(x) for an int x and for a float x
FormatInt(v) == ToString(v)
FormatFloat(v) == ToString(v) \o ".0"
Format(x) == IF x.isInt THEN FormatInt(x.v) ELSE FormatFloat(x.v)

IntText == [v \in Numbers |-> FormatInt(v)]
FloatText == [v \in Numbers |-> FormatFloat(v)]

\* the tokens int() accepts and the tokens float() accepts, with the numbers they give
IntValue ==
    [tok \in {IntText[v] : v \in Numbers} |-> CHOOSE v \in Numbers : IntText[v] = tok]
FloatValue ==
    [tok \in {IntText[v] : v \in Numbers} \cup {FloatText[v] : v \in Numbers} |->
        CHOOSE v \in Numbers : tok \in {IntText[v], FloatText[v]}]

Ok(v) == [kind |-> "ok", val |-> v, type |-> "none", msg |-> ""]
Raise(type, msg) == [kind |-> "error", val |-> 0, type |-> type, msg |-> msg]

\* int(tok)
ParseInt(tok) ==
    IF tok \in DOMAIN IntValue THEN Ok(IntValue[tok])
    ELSE Raise("ValueError", "invalid literal for int() with base 10: '" \o tok \o "'")

\* float(tok)
ParseFloat(tok) ==
    IF tok \in DOMAIN FloatValue THEN Ok(FloatValue[tok])
    ELSE Raise("ValueError", "could not convert string to float: '" \o tok \o "'")

Min(a, b) == IF a < b THEN a ELSE b
Least(S) == CHOOSE x \in S : \A y \in S : x <= y

-----------------------------------------------------------------------------
(* GridData: origin, spacing, a masked array of values *)

GridData(origin, delta, data, shape, missing_data_value) ==
    [origin |-> origin, delta |-> delta, shape |-> shape, data |-> data,
     mask |-> [i \in 1 .. shape[1] |->
                 [j \in 1 .. shape[2] |-> data[i][j] = missing_data_value]]]

\* q[i, j] and "q.data[i, j] is ma.masked", i and j counted from 0
GetItem(g, i, j) == g.data[i + 1][j + 1]
IsMasked(g, i, j) == g.mask[i + 1][j + 1]

NoGrid == [origin |-> <<0, 0>>, delta |-> 0, shape |-> <<0, 0>>, data |-> <<>>, mask |-> <<>>]

-----------------------------------------------------------------------------
(* write *)

Keywords == <<"ncols", "nrows", "xllcorner", "yllcorner", "cellsize", "NODATA_value">>

\* (a variant that swaps the two dimensions)
WriteHeaderSwapped(g, sentinel) ==
    LET ny == g.shape[1]
        nx == g.shape[2]
    IN  << <<"ncols", FormatInt(ny)>>,
           <<"nrows", FormatInt(nx)>>,
           <<"xllcorner", FormatFloat(g.origin[1])>>,
           <<"yllcorner", FormatFloat(g.origin[2])>>,
           <<"cellsize", FormatFloat(g.delta)>>,
           <<"NODATA_value", Format(sentinel)>> >>

\* the six header lines write emits
WriteHeader(g, sentinel) ==
    LET ny == g.shape[1]
        nx == g.shape[2]
    IN  << <<"ncols", FormatInt(nx)>>,
           <<"nrows", FormatInt(ny)>>,
           <<"xllcorner", FormatFloat(g.origin[1])>>,
           <<"yllcorner", FormatFloat(g.origin[2])>>,
           <<"cellsize", FormatFloat(g.delta)>>,
           <<"NODATA_value", Format(sentinel)>> >>

\* (a variant that writes the stored value of every cell, missing or not)
WriteCellStored(g, sentinel, i, j) == FormatFloat(GetItem(g, i, j))

\* the token written for cell (i, j)
WriteCell(g, sentinel, i, j) ==
    IF ~ IsMasked(g, i, j) THEN FormatFloat(GetItem(g, i, j)) ELSE Format(sentinel)

\* (a variant that walks the rows in storage order)
WriteRowForward(ny, k) == k

\* for i in range(ny - 1, -1, -1): the storage row i of the k-th pass, k = 0 .. ny - 1
WriteRow(ny, k) == ny - 1 - k

\* the body: one line per pass of the row loop, for j in range(nx) within it
WriteBody(g, sentinel) ==
    LET ny == g.shape[1]
        nx == g.shape[2]
    IN  [k \in 1 .. ny |->
           [j \in 1 .. nx |-> WriteCell(g, sentinel, WriteRow(ny, k - 1), j - 1)]]

WriteLines(g, sentinel) == WriteHeader(g, sentinel) \o WriteBody(g, sentinel)

-----------------------------------------------------------------------------
(* read *)

\* input_file.readline().split() with p lines consumed so far
ReadLine(input_file, p) == IF p < Len(input_file) THEN input_file[p + 1] ELSE <<>>

\* the position after n more calls of readline()
Advance(input_file, p, n) == Min(p + n, Len(input_file))

\* (a variant that takes the first token of the line)
rdFirst(input_file, p) ==
    LET toks == ReadLine(input_file, p)
    IN  IF Len(toks) < 1 THEN Raise("IndexError", "list index out of range") ELSE Ok(toks[1])

\* rd(): the second token of the next line
rd(input_file, p) ==
    LET toks == ReadLine(input_file, p)
    IN  IF Len(toks) < 2 THEN Raise("IndexError", "list index out of range") ELSE Ok(toks[2])

\* header line h (0 .. 5) of the text starting at p: int(rd()) for ncols and nrows,
\* float(rd()) for the other four
HeaderField(input_file, p, h) ==
    LET r == rd(input_file, p + h)
    IN  IF r.kind = "error" THEN r
        ELSE IF h < 2 THEN ParseInt(r.val) ELSE ParseFloat(r.val)

\* [float(q) for q in tokens]: the values, or the exception of the first token that fails
RowFloats(toks) ==
    LET bad == {j \in 1 .. Len(toks) : ParseFloat(toks[j]).kind = "error"}
    IN  IF bad # {} THEN ParseFloat(toks[Least(bad)])
        ELSE Ok([j \in 1 .. Len(toks) |-> ParseFloat(toks[j]).val])

\* data[i, :] = vals, numpy's assignment of a list to a row of nx cells: a list of nx
\* values is copied, a list of one value is broadcast to every cell, any other length
\* raises
AssignRow(vals, nx) ==
    IF Len(vals) = nx THEN Ok(vals)
    ELSE IF Len(vals) = 1 THEN Ok([j \in 1 .. nx |-> vals[1]])
    ELSE Raise("ValueError",
               "could not broadcast input array from shape (" \o ToString(Len(vals))
                   \o ",) into shape (" \o ToString(nx) \o ",)")

\* (a variant that walks the rows in storage order)
ReadRowForward(ny, k) == k

\* for i in range(ny-1, -1, -1): the storage row i of the k-th pass, k = 0 .. ny - 1
ReadRowIndex(ny, k) == ny - 1 - k

\* the right-hand side of the k-th pass of the row loop, which reads the k-th data line
ReadRow(input_file, p, nx, k) ==
    LET vals == RowFloats(ReadLine(input_file, p + 6 + k))
    IN  IF vals.kind = "error" THEN vals ELSE AssignRow(vals.val, nx)

Returned(g, p) ==
    [kind |-> "ok", grid |-> g, type |-> "none", msg |-> "", stage |-> "none", index |-> 0,
     pos |-> p]
Failed(e, stage, index, p) ==
    [kind |-> "error", grid |-> NoGrid, type |-> e.type, msg |-> e.msg, stage |-> stage,
     index |-> index, pos |-> p]
NoOutcome ==
    [kind |-> "none", grid |-> NoGrid, type |-> "none", msg |-> "", stage |-> "none",
     index |-> 0, pos |-> 0]

\* the row loop and the construction of the result
ReadBody(input_file, p, nx, ny, xo, yo, dx, nodata) ==
    LET row == [k \in 0 .. (ny - 1) |-> ReadRow(input_file, p, nx, k)]
        bad == {k \in 0 .. (ny - 1) : row[k].kind = "error"}
    IN  IF bad # {}
        THEN Failed(row[Least(bad)], "row", ReadRowIndex(ny, Least(bad)),
                    Advance(input_file, p, 6 + Least(bad) + 1))
        ELSE LET pass(i) == CHOOSE k \in 0 .. (ny - 1) : ReadRowIndex(ny, k) = i
                 data == [i \in 1 .. ny |-> row[pass(i - 1)].val]
             IN  Returned(GridData(<<xo, yo>>, dx, data, <<ny, nx>>, nodata),
                          Advance(input_file, p, 6 + ny))

\* read(filename_or_file) on the text input_file from position p.  The outcome records
\* what the caller gets (a GridData, or an exception's type and message), where the
\* stream is left, and the statement that raised (stage, index: header line h, the
\* allocation, or storage row i), which the caller does not get.
Read(input_file, p) ==
    LET H == [h \in 0 .. 5 |-> HeaderField(input_file, p, h)]
        bad == {h \in 0 .. 5 : H[h].kind = "error"}
    IN  IF bad # {}
        THEN Failed(H[Least(bad)], "header", Least(bad), Advance(input_file, p, Least(bad) + 1))
        ELSE IF H[0].val < 0 \/ H[1].val < 0
        THEN Failed(Raise("ValueError", "negative dimensions are not allowed"), "alloc", 0,
                    Advance(input_file, p, 6))
        ELSE ReadBody(input_file, p, H[0].val, H[1].val, H[2].val, H[3].val, H[4].val,
                      H[5].val)

-----------------------------------------------------------------------------
(* The caller's inputs *)

\* the value stored in cell (i, j) of the grids and texts the caller supplies: every
\* cell of a grid holds a different number
CellValue(i, j) == 1 + i * (MaxCols + 2) + j

\* the grids passed to write: every shape up to MaxRows x MaxCols (empty ones included),
\* every set of missing cells
Grids ==
    UNION {
        { [origin |-> <<0, 0>>, delta |-> 10, shape |-> <<ny, nx>>,
           data |-> [i \in 1 .. ny |-> [j \in 1 .. nx |-> CellValue(i - 1, j - 1)]],
           mask |-> m] :
          m \in [1 .. ny -> [1 .. nx -> BOOLEAN]] } :
        ny \in 0 .. MaxRows, nx \in 0 .. MaxCols }

\* the sentinels passed to write: the customary -9999, and the number stored in cell
\* (0, 0) of every grid
Sentinels == {PyInt(-9999), PyFloat(CellValue(0, 0))}

KeywordChoices ==
    { Keywords,
      <<"NODATA_value", "cellsize", "yllcorner", "xllcorner", "nrows", "ncols">>,
      <<"1", "2", "0.0", "0.0", "10.0", "-9999">> }

HeaderFlaws == {"blank", "short", "abc"}
RowFlaws == {"abc", "empty", "single", "fewer", "more"}

\* a header line: keyword and value, or a flawed one
HeaderLine(kw, value, flaw) ==
    CASE flaw = "blank" -> <<>>
      [] flaw = "short" -> <<kw>>
      [] flaw = "abc" -> <<kw, "abc">>
      [] OTHER -> <<kw, value>>

\* data line k of a text whose header declares nc columns, or a flawed one
DataLine(k, nc, flaw) ==
    LET good(n) == [j \in 1 .. n |-> FormatFloat(CellValue(k, j - 1))]
    IN  CASE flaw = "abc" -> [j \in 1 .. nc |-> IF j = 1 THEN "abc" ELSE good(nc)[j]]
          [] flaw = "empty" -> <<>>
          [] flaw = "single" -> good(1)
          [] flaw = "fewer" -> good(IF nc > 0 THEN nc - 1 ELSE 0)
          [] flaw = "more" -> good(nc + 1)
          [] OTHER -> good(nc)

\* a text the caller was given: a header declaring nc columns and nr rows, followed by
\* nlines data lines; flawAt names the one flawed line (1 .. 6 a header line, 7 .. a
\* data line, 0 none)
ExternalFile(kws, nc, nr, nodata, nlines, flawAt, flaw) ==
    LET values == <<FormatInt(nc), FormatInt(nr), "0.0", "0.0", "10.0", nodata>>
    IN  [h \in 1 .. 6 |-> HeaderLine(kws[h], values[h], IF flawAt = h THEN flaw ELSE "none")]
        \o [k \in 1 .. nlines |-> DataLine(k - 1, nc, IF flawAt = 6 + k THEN flaw ELSE "none")]

NoCall == [op |-> "none", mode |-> "none", start |-> 0]

-----------------------------------------------------------------------------
(* The state machine *)

InitRoundTrip ==
    /\ scenario = "roundtrip"
    /\ q \in Grids
    /\ missing \in Sentinels
    /\ file = <<>>

InitExternal ==
    /\ scenario = "external"
    /\ q = NoGrid
    /\ missing = PyInt(-9999)
    /\ \E kws \in KeywordChoices, nc \in 0 .. MaxCols, nr \in 0 .. MaxRows,
         nodata \in {"-9999", FormatFloat(CellValue(0, 0))}, nlines \in 0 .. (MaxRows + 1) :
           \/ file = ExternalFile(kws, nc, nr, nodata, nlines, 0, "none")
           \/ \E h \in 1 .. 6, flaw \in HeaderFlaws :
                 file = ExternalFile(kws, nc, nr, nodata, nlines, h, flaw)
           \/ \E k \in 1 .. nlines, flaw \in RowFlaws :
                 file = ExternalFile(kws, nc, nr, nodata, nlines, 6 + k, flaw)

Init ==
    /\ InitRoundTrip \/ InitExternal
    /\ pos = 0
    /\ callerClosed = FALSE
    /\ codecStream = "none"
    /\ out = NoOutcome
    /\ last = NoCall
    /\ ncalls = 0

\* What becomes of a stream the codec opened and never closes, once the call has
\* returned: the runtime may finalise the unreachable file object at once (closing it)
\* or later.  After an exception the traceback still refers to the frame, and so to the
\* stream, which stays open.
AfterReturn == {"open", "closed"}
AfterRaise == {"open"}

\* write(filename, q, missing): open(filename, 'w') empties the file, the text is written
WritePath ==
    /\ scenario = "roundtrip"
    /\ last.op # "read"
    /\ ncalls < MaxCalls
    /\ file' = WriteLines(q, missing)
    /\ codecStream' \in AfterReturn
    /\ last' = [op |-> "write", mode |-> "path", start |-> 0]
    /\ ncalls' = ncalls + 1
    /\ UNCHANGED <<scenario, q, missing, pos, callerClosed, out>>

\* write(output_file, q, missing): the text is written at the end of the caller's stream
WriteStream ==
    /\ scenario = "roundtrip"
    /\ last.op # "read"
    /\ ncalls < MaxCalls
    /\ file' = file \o WriteLines(q, missing)
    /\ last' = [op |-> "write", mode |-> "stream", start |-> Len(file)]
    /\ ncalls' = ncalls + 1
    /\ UNCHANGED <<scenario, q, missing, pos, callerClosed, codecStream, out>>

\* read(filename): a stream opened at the start of the file
ReadPath ==
    /\ scenario = "roundtrip" => last.op # "none"
    /\ ncalls < MaxCalls
    /\ out' = Read(file, 0)
    /\ codecStream' \in (IF out'.kind = "ok" THEN AfterReturn ELSE AfterRaise)
    /\ last' = [op |-> "read", mode |-> "path", start |-> 0]
    /\ ncalls' = ncalls + 1
    /\ UNCHANGED <<scenario, q, missing, file, pos, callerClosed>>

\* read(input_file): the caller's stream, read from where it stands
ReadStream ==
    /\ scenario = "roundtrip" => last.op # "none"
    /\ ncalls < MaxCalls
    /\ out' = Read(file, pos)
    /\ pos' = out'.pos
    /\ last' = [op |-> "read", mode |-> "stream", start |-> pos]
    /\ ncalls' = ncalls + 1
    /\ UNCHANGED <<scenario, q, missing, file, callerClosed, codecStream>>

Next == WritePath \/ WriteStream \/ ReadPath \/ ReadStream

Spec == Init /\ [][Next]_vars

-----------------------------------------------------------------------------
(* What the properties speak of *)

LastWrite == last.op = "write"
LastRead == last.op = "read"

IsIntText(tok) == tok \in DOMAIN IntValue
IsFloatText(tok) == tok \in DOMAIN FloatValue
\* the number a token spells
NumberOf(tok) == FloatValue[tok]

\* the six lines from position s on are header lines read succeeds on
HeaderOkAt(f, s) ==
    /\ s + 6 <= Len(f)
    /\ \A h \in 1 .. 6 :
          /\ Len(f[s + h]) >= 2
          /\ IF h <= 2 THEN IsIntText(f[s + h][2]) /\ NumberOf(f[s + h][2]) >= 0
                       ELSE IsFloatText(f[s + h][2])

DeclaredCols(f, s) == NumberOf(f[s + 1][2])
DeclaredRows(f, s) == NumberOf(f[s + 2][2])

\* a well-formed grid starts at position s: a good header, then as many lines as it
\* declares rows, each of as many numbers as it declares columns
WellFormedAt(f, s) ==
    /\ HeaderOkAt(f, s)
    /\ s + 6 + DeclaredRows(f, s) <= Len(f)
    /\ \A k \in 1 .. DeclaredRows(f, s) :
          /\ Len(f[s + 6 + k]) = DeclaredCols(f, s)
          /\ \A j \in 1 .. DeclaredCols(f, s) : IsFloatText(f[s + 6 + k][j])

\* f with the keywords of the header at position s replaced by kws
Rekey(f, s, kws) ==
    [n \in 1 .. Len(f) |->
        IF n > s /\ n <= s + 6 /\ Len(f[n]) >= 1 THEN <<kws[n - s]>> \o Tail(f[n]) ELSE f[n]]

\* texts with one flaw each, to compare a failure with
Probes ==
    { ExternalFile(Keywords, 1, 1, "-9999", 1, h, "abc") : h \in 3 .. 6 }
    \cup { ExternalFile(Keywords, 1, MaxRows, "-9999", MaxRows, 6 + k, "abc") : k \in 1 .. MaxRows }

-----------------------------------------------------------------------------
(* C1 *)

\* the last call read a text that write produced from q
ReadBack == scenario = "roundtrip" /\ LastRead /\ last.start < Len(file)

RoundTripValues ==
    /\ out.kind = "ok"
    /\ out.grid.shape = q.shape
    /\ out.grid.origin = q.origin
    /\ out.grid.delta = q.delta
    /\ \A i \in 1 .. q.shape[1], j \in 1 .. q.shape[2] :
          ~ q.mask[i][j] => out.grid.data[i][j] = q.data[i][j]

\* C1 as stated: reading back what write wrote gives the shape, origin, cell size and
\* values of q, and a cell is masked in the result exactly when it is missing in q.
C1_RoundTripExact ==
    ReadBack =>
        /\ RoundTripValues
        /\ \A i \in 1 .. q.shape[1], j \in 1 .. q.shape[2] :
              out.grid.mask[i][j] <=> q.mask[i][j]

\* C1 as amended: reading back what write wrote gives the shape, origin, cell size and
\* values of q, and a cell is masked in the result exactly when it is missing in q or
\* its stored value equals the sentinel.
C1_RoundTrip ==
    ReadBack =>
        /\ RoundTripValues
        /\ \A i \in 1 .. q.shape[1], j \in 1 .. q.shape[2] :
              out.grid.mask[i][j] <=> (q.mask[i][j] \/ q.data[i][j] = missing.v)

C1_Witness ==
    /\ ReadBack
    /\ out.kind = "ok"
    /\ q.shape = <<2, 2>>
    /\ q.mask[1][1] = FALSE /\ q.data[1][1] = missing.v
    /\ q.mask[2][1] = TRUE
    /\ out.grid.mask[1][1] = TRUE

-----------------------------------------------------------------------------
(* C2 *)

\* C2: a call given a path leaves the stream it opened closed, however it ends.
C2_Closed == last.mode = "path" => codecStream = "closed"

-----------------------------------------------------------------------------
(* C3 *)

\* C3: read fails whenever one of the declared rows has a number of tokens other than
\* the declared number of columns.
C3_TokenCount ==
    (/\ LastRead
     /\ HeaderOkAt(file, last.start)
     /\ \E k \in 0 .. (DeclaredRows(file, last.start) - 1) :
           Len(ReadLine(file, last.start + 6 + k)) # DeclaredCols(file, last.start))
    => out.kind = "error"

-----------------------------------------------------------------------------
(* C4 *)

\* C4: read fails whenever the stream ends before the declared number of rows.
C4_Truncated ==
    (/\ LastRead
     /\ HeaderOkAt(file, last.start)
     /\ Len(file) - (last.start + 6) < DeclaredRows(file, last.start))
    => out.kind = "error"

-----------------------------------------------------------------------------
(* C5 *)

\* C5: what the caller gets from a failed read tells the stage that failed: no read of
\* another text fails with the same exception at another stage, or at another row.
C5_Stage ==
    (LastRead /\ out.kind = "error") =>
        \A f \in Probes :
            LET r == Read(f, 0)
            IN  (r.kind = "error" /\ r.type = out.type /\ r.msg = out.msg)
                    => (r.stage = out.stage /\ (out.stage = "row" => r.index = out.index))

-----------------------------------------------------------------------------
(* C6 *)

\* C6: read of a well-formed text of n rows and m columns returns a grid of shape
\* (n, m) whose storage row n - 1 - k holds the numbers of the k-th data line in order,
\* with the header's corner as origin and its cellsize as cell size.
C6_RowOrder ==
    (LastRead /\ WellFormedAt(file, last.start)) =>
        LET s == last.start
            n == DeclaredRows(file, s)
            m == DeclaredCols(file, s)
        IN  /\ out.kind = "ok"
            /\ out.grid.shape = <<n, m>>
            /\ out.grid.origin = <<NumberOf(file[s + 3][2]), NumberOf(file[s + 4][2])>>
            /\ out.grid.delta = NumberOf(file[s + 5][2])
            /\ \A k \in 0 .. (n - 1), j \in 0 .. (m - 1) :
                  GetItem(out.grid, n - 1 - k, j) = NumberOf(file[s + 6 + k + 1][j + 1])

C6_Witness ==
    /\ scenario = "external"
    /\ LastRead
    /\ WellFormedAt(file, last.start)
    /\ out.kind = "ok"
    /\ out.grid.shape = <<2, 2>>
    /\ out.grid.data[1] # out.grid.data[2]

-----------------------------------------------------------------------------
(* C7 *)

\* C7: write emits, after the header, one line per row and nothing more; line k holds
\* the cells of storage row ny - 1 - k in column order, the sentinel for a missing cell
\* and the stored value for any other.
C7_Body ==
    LastWrite =>
        LET s == last.start
            ny == q.shape[1]
            nx == q.shape[2]
        IN  /\ Len(file) = s + 6 + ny
            /\ \A k \in 0 .. (ny - 1) :
                  /\ Len(file[s + 6 + k + 1]) = nx
                  /\ \A j \in 0 .. (nx - 1) :
                        file[s + 6 + k + 1][j + 1] =
                            IF q.mask[ny - k][j + 1] THEN Format(missing)
                            ELSE FormatFloat(q.data[ny - k][j + 1])

C7_Witness ==
    /\ LastWrite
    /\ q.shape = <<2, 2>>
    /\ q.mask[1][2] = TRUE
    /\ q.mask[2][1] = FALSE
    /\ file[last.start + 7][2] # Format(missing)
    /\ file[last.start + 8][2] = Format(missing)

-----------------------------------------------------------------------------
(* C8 *)

\* C8: the first six lines write emits are the keywords ncols, nrows, xllcorner,
\* yllcorner, cellsize, NODATA_value in this order, each followed by its value: the
\* number of columns, the number of rows, the origin, the cell size, the sentinel.
C8_Header ==
    LastWrite =>
        LET s == last.start
            value == <<q.shape[2], q.shape[1], q.origin[1], q.origin[2], q.delta, missing.v>>
        IN  /\ Len(file) >= s + 6
            /\ \A h \in 1 .. 6 :
                  /\ Len(file[s + h]) = 2
                  /\ file[s + h][1] = Keywords[h]
                  /\ IsFloatText(file[s + h][2])
                  /\ NumberOf(file[s + h][2]) = value[h]
            /\ IsIntText(file[s + 1][2])
            /\ IsIntText(file[s + 2][2])

C8_Witness ==
    /\ LastWrite
    /\ last.start > 0
    /\ q.shape = <<1, 2>>
    /\ file[last.start + 1] = <<"ncols", "2">>
    /\ file[last.start + 2] = <<"nrows", "1">>

-----------------------------------------------------------------------------
(* C9 *)

\* C9: what read gives (the grid, or the exception) is the same for every text that
\* differs from the one read only in the keywords of its header lines.
C9_KeywordBlind ==
    LastRead =>
        \A kws \in KeywordChoices :
            LET r == Read(Rekey(file, last.start, kws), last.start)
            IN  /\ r.kind = out.kind
                /\ r.grid = out.grid
                /\ r.type = out.type
                /\ r.msg = out.msg

C9_Witness ==
    /\ LastRead
    /\ out.kind = "ok"
    /\ out.grid.shape = <<2, 2>>
    /\ file[last.start + 1][1] = "NODATA_value"
    /\ file[last.start + 6][1] = "ncols"

-----------------------------------------------------------------------------
(* C10 *)

\* C10: a read that succeeds on the caller's stream leaves it open, 6 + n lines further
\* than it found it, n being the number of rows.
C10_Consumed ==
    (LastRead /\ last.mode = "stream" /\ out.kind = "ok") =>
        /\ pos = last.start + 6 + out.grid.shape[1]
        /\ callerClosed = FALSE

====
